---------------------------- MODULE Spec2Model ----------------------------
(***************************************************************************)
(* Accreditation verification of Transcript.py: check_accreditation, the   *)
(* lru_cache wrapper that memoizes it, the six registry adapters it        *)
(* dispatches to, and the status line main() renders from its result.      *)
(*                                                                         *)
(* A call of the memoized function is four steps: the wrapper's lookup     *)
(* (hit: return at once; miss: enter the body), the rate-limit sleep, the  *)
(* dispatch to one adapter inside try/except, and the wrapper's store.     *)
(* The registries are the environment: the condition in which a lookup     *)
(* finds its registry (RegistryModes) is chosen afresh at every step that  *)
(* is answered, so a registry may go down and come back between calls.     *)
(***************************************************************************)
EXTENDS Naturals, Sequences, FiniteSets, TLC

VARIABLES
    active,    \* the callers that issue calls (one in the synchronous UI flow)
    inputs,    \* the (institution, country) pairs callers pass
    budget,    \* calls still to be issued (bounds the run)
    cache,     \* lru_cache: entries oldest-first, [key, val, used]
    tick,      \* number of cache accesses so far (stamps `used`)
    pc,        \* per caller: "idle", "sleep", "dispatch", "store"
    key,       \* per caller: arguments of the current / last call
    log,       \* per caller: events of the current / last call
    mode,      \* per caller: condition of the registry when the call was answered
    ret,       \* per caller: outcome of the current / last call
    prev,      \* per caller: summary of the call before the current one
    returned   \* every <<key, verdict>> a call returned to its caller

vars == <<active, inputs, budget, cache, tick, pc, key, log, mode, ret, prev, returned>>

---------------------------------------------------------------------------
(* Bounds of the model *)

\* Capacity of the cache: stands for lru_cache(maxsize=1000), scaled down.
maxsize == 3
\* Calls issued in a run of Spec (all 21 argument pairs).
MaxCalls == 2
\* Calls issued in a run of CacheSpec, and the number of distinct keys used.
MaxCacheCalls == 5
NumCacheKeys == 4
\* Calls issued in a run of ConcSpec (two concurrent callers).
MaxConcCalls == 3
NumConcKeys == 2
\* Calls issued in a run of FairSpec, and the number of distinct keys used.
MaxFairCalls == 2
NumFairKeys == 6

---------------------------------------------------------------------------
(* Constants of the program and of its environment *)

Threads == {1, 2}

COUNTRIES == <<"India", "Pakistan", "Saudi Arabia", "Germany", "Nigeria", "Bangladesh">>

Supported == {COUNTRIES[i] : i \in 1..Len(COUNTRIES)}

\* A country string outside COUNTRIES: check_accreditation takes any str.
UnknownCountry == "Atlantis"

AllCountries == Supported \cup {UnknownCountry}

\* Institution names as the LLM step may deliver them: one that the
\* registries list, one that they do not, and one that is no valid regex.
Institutions == {"MIT", "Nowhere U", "("}

\* The names every registry lists (as printed on its pages).
Listing == {"Mit"}

\* str.lower() / re.I on the names of the model.
Lower(s) ==
    CASE s = "MIT" -> "mit"
      [] s = "Mit" -> "mit"
      [] s = "Nowhere U" -> "nowhere u"
      [] OTHER -> s

\* re.compile(s) raises re.error
InvalidRegex(s) == s = "("

\* Conditions in which a request finds a registry.
RegistryModes == {"up", "down", "http5xx", "malformed"}

\* random.uniform(1, 3), on the integer grid
DelayMin == 1
DelayMax == 3
Delays == DelayMin..DelayMax

AllKeys == Institutions \X AllCountries

\* A fixed enumeration of argument pairs, for the runs that use a few keys.
KeyOrder ==
    << <<"MIT", "Germany">>, <<"Nowhere U", "India">>, <<"MIT", "Pakistan">>,
       <<"(", "Pakistan">>, <<"Nowhere U", "Atlantis">>, <<"MIT", "Nigeria">>,
       <<"Nowhere U", "Bangladesh">>, <<"MIT", "Saudi Arabia">> >>

FirstKeys(n) == {KeyOrder[i] : i \in 1..(IF n < Len(KeyOrder) THEN n ELSE Len(KeyOrder))}

---------------------------------------------------------------------------
(* The registries: what requests.get / session.post return or raise *)

\* A response: raised (transport exception), status, and what the body holds:
\* tokens (the two hidden form inputs), marker (the provider's "not found"
\* phrase), text (names anywhere in the body), elems (names inside the
\* elements the adapter selects).  No adapter reads the status.
Response(c, m, institution) ==
    CASE m = "down" ->
           [raised |-> TRUE, status |-> 0, tokens |-> FALSE, marker |-> FALSE,
            text |-> {}, elems |-> {}]
      [] m = "http5xx" ->
           [raised |-> FALSE, status |-> 503, tokens |-> FALSE, marker |-> FALSE,
            text |-> {}, elems |-> {}]
      [] m = "malformed" ->
           [raised |-> FALSE, status |-> 200, tokens |-> FALSE, marker |-> FALSE,
            text |-> Listing, elems |-> {}]
      [] OTHER ->
           [raised |-> FALSE, status |-> 200, tokens |-> TRUE,
            marker |-> (Lower(institution) \notin {Lower(n) : n \in Listing}),
            text |-> Listing, elems |-> Listing]

---------------------------------------------------------------------------
(* The adapters.  Each returns [raised, val, reqs]: whether it raised, the *)
(* bool it returned otherwise, and the number of requests it issued.       *)

Raise(n) == [raised |-> TRUE, val |-> FALSE, reqs |-> n]
Return(v, n) == [raised |-> FALSE, val |-> v, reqs |-> n]

\* institution.lower() in text.lower()
ContainsLower(names, institution) == Lower(institution) \in {Lower(n) : n \in names}

check_ugc_india(institution, m) ==
    LET page == Response("India", m, institution)
        found == Response("India", m, institution)
    IN  IF page.raised THEN Raise(1)
        ELSE IF ~page.tokens THEN Raise(1)     \* soup.find(...) is None: TypeError
        ELSE IF found.raised THEN Raise(2)
        ELSE Return(~found.marker, 2)

check_hec_pakistan(institution, m) ==
    LET response == Response("Pakistan", m, institution)
    IN  IF response.raised THEN Raise(1)
        ELSE IF response.elems = {} THEN Return(FALSE, 1)   \* any() of nothing
        ELSE IF InvalidRegex(institution) THEN Raise(1)     \* re.error
        ELSE Return(ContainsLower(response.elems, institution), 1)

check_moe_saudi(institution, m) ==
    LET response == Response("Saudi Arabia", m, institution)
    IN  IF response.raised THEN Raise(1)
        ELSE Return(ContainsLower(response.text, institution), 1)

check_anabin_germany(institution, m) ==
    LET response == Response("Germany", m, institution)
    IN  IF response.raised THEN Raise(1)
        ELSE Return(~response.marker, 1)

check_nuc_nigeria(institution, m) ==
    LET response == Response("Nigeria", m, institution)
    IN  IF response.raised THEN Raise(1)
        ELSE Return(ContainsLower(response.text, institution), 1)

check_ugc_bangladesh(institution, m) ==
    LET response == Response("Bangladesh", m, institution)
    IN  IF response.raised THEN Raise(1)
        ELSE Return(ContainsLower(response.elems, institution), 1)

\* The adapter functions by name.
RunAdapter(name, institution, m) ==
    CASE name = "check_ugc_india" -> check_ugc_india(institution, m)
      [] name = "check_hec_pakistan" -> check_hec_pakistan(institution, m)
      [] name = "check_moe_saudi" -> check_moe_saudi(institution, m)
      [] name = "check_anabin_germany" -> check_anabin_germany(institution, m)
      [] name = "check_nuc_nigeria" -> check_nuc_nigeria(institution, m)
      [] OTHER -> check_ugc_bangladesh(institution, m)

\* Dispatched with the branches of Nigeria and Bangladesh exchanged.
DispatchedSwapped(country) ==
    IF country = "India" THEN <<"check_ugc_india">>
    ELSE IF country = "Pakistan" THEN <<"check_hec_pakistan">>
    ELSE IF country = "Saudi Arabia" THEN <<"check_moe_saudi">>
    ELSE IF country = "Germany" THEN <<"check_anabin_germany">>
    ELSE IF country = "Nigeria" THEN <<"check_ugc_bangladesh">>
    ELSE IF country = "Bangladesh" THEN <<"check_nuc_nigeria">>
    ELSE << >>

\* The if/elif chain of check_accreditation: the adapters it calls.
Dispatched(country) ==
    IF country = "India" THEN <<"check_ugc_india">>
    ELSE IF country = "Pakistan" THEN <<"check_hec_pakistan">>
    ELSE IF country = "Saudi Arabia" THEN <<"check_moe_saudi">>
    ELSE IF country = "Germany" THEN <<"check_anabin_germany">>
    ELSE IF country = "Nigeria" THEN <<"check_nuc_nigeria">>
    ELSE IF country = "Bangladesh" THEN <<"check_ugc_bangladesh">>
    ELSE << >>

\* Handled with the exception raised again instead of returning False.
HandledReraised(r) == [kind |-> "raise", val |-> FALSE, failed |-> TRUE]

\* except Exception: st.error(...); return False
Handled(r) == [kind |-> "pending", val |-> FALSE, failed |-> TRUE]

\* The body of check_accreditation after the sleep: [kind, val, failed].
\* failed records that an exception was caught (st.error was shown).
Body(institution, country, m) ==
    LET called == Dispatched(country)
    IN  IF called = << >>
        THEN [kind |-> "pending", val |-> FALSE, failed |-> FALSE]   \* return False
        ELSE LET r == RunAdapter(called[1], institution, m)
             IN  IF r.raised THEN Handled(r)
                 ELSE [kind |-> "pending", val |-> r.val, failed |-> FALSE]

\* The events the body appends to the call's log.
BodyEvents(institution, country, m) ==
    LET called == Dispatched(country)
    IN  IF called = << >> THEN << >>
        ELSE <<[ev |-> "adapter", arg |-> called[1], n |-> 0]>>
             \o <<[ev |-> "request", arg |-> country,
                   n |-> RunAdapter(called[1], institution, m).reqs]>>

\* main(): the status line rendered from the bool.
Status(accredited) == IF accredited THEN "Recognized" ELSE "Not Recognized"

---------------------------------------------------------------------------
(* The lru_cache wrapper *)

CacheKeys == {cache[i].key : i \in 1..Len(cache)}

CacheIndex(k) == CHOOSE i \in 1..Len(cache) : cache[i].key = k

CacheGet(k) == cache[CacheIndex(k)].val

Remove(s, i) == SubSeq(s, 1, i - 1) \o SubSeq(s, i + 1, Len(s))

\* Touch that stamps the entry but leaves it where it is (first in, first out).
TouchInPlace(c, k, now) ==
    LET i == CHOOSE j \in 1..Len(c) : c[j].key = k
    IN  [c EXCEPT ![i].used = now]

\* A hit moves the entry to the most-recent end.
Touch(c, k, now) ==
    LET i == CHOOSE j \in 1..Len(c) : c[j].key = k
    IN  Append(Remove(c, i), [c[i] EXCEPT !.used = now])

\* Put that keeps only truthy results.
PutTruthy(c, k, v, now) ==
    LET e == [key |-> k, val |-> v, used |-> now]
    IN  IF ~v \/ (\E j \in 1..Len(c) : c[j].key = k) THEN c
        ELSE IF Len(c) >= maxsize THEN Append(Tail(c), e)
        ELSE Append(c, e)

\* Put that does not look whether the key was stored meanwhile.
PutUnchecked(c, k, v, now) ==
    LET e == [key |-> k, val |-> v, used |-> now]
    IN  IF Len(c) >= maxsize THEN Append(Tail(c), e)
        ELSE Append(c, e)

\* Storing a result: nothing if the key was stored meanwhile; at capacity the
\* oldest entry makes room; the new entry goes to the most-recent end.
Put(c, k, v, now) ==
    LET e == [key |-> k, val |-> v, used |-> now]
    IN  IF \E j \in 1..Len(c) : c[j].key = k THEN c
        ELSE IF Len(c) >= maxsize THEN Append(Tail(c), e)
        ELSE Append(c, e)

---------------------------------------------------------------------------
(* State *)

NoKey == <<"", "">>
NoRet == [kind |-> "none", val |-> FALSE, failed |-> FALSE, hit |-> FALSE]
NoPrev == [key |-> NoKey, val |-> FALSE, hit |-> FALSE, adapters |-> 0, done |-> FALSE]

InitWith(callers, keys, calls) ==
    /\ active = callers
    /\ inputs = keys
    /\ budget = calls
    /\ cache = << >>
    /\ tick = 0
    /\ pc = [t \in Threads |-> "idle"]
    /\ key = [t \in Threads |-> NoKey]
    /\ log = [t \in Threads |-> << >>]
    /\ mode = [t \in Threads |-> "none"]
    /\ ret = [t \in Threads |-> NoRet]
    /\ prev = [t \in Threads |-> NoPrev]
    /\ returned = {}

Init == InitWith({1}, AllKeys, MaxCalls)

InitCache == InitWith({1}, FirstKeys(NumCacheKeys), MaxCacheCalls)

InitConc == InitWith(Threads, FirstKeys(NumConcKeys), MaxConcCalls)

InitFair == InitWith({1}, FirstKeys(NumFairKeys), MaxFairCalls)

Count(s, e) == Cardinality({i \in 1..Len(s) : s[i].ev = e})

\* What the caller keeps of the call it has just finished.
Summary(t) ==
    [key |-> key[t], val |-> ret[t].val, hit |-> ret[t].hit,
     adapters |-> Count(log[t], "adapter"), done |-> ret[t].kind \in {"return", "raise"}]

---------------------------------------------------------------------------
(* Actions *)

\* check_accreditation(institution, country) with the key in the cache:
\* the wrapper returns the stored result; the body does not run.
CallHit(t, k, m) ==
    /\ t \in active /\ pc[t] = "idle" /\ budget > 0
    /\ k \in inputs /\ k \in CacheKeys
    /\ budget' = budget - 1
    /\ tick' = tick + 1
    /\ cache' = Touch(cache, k, tick + 1)
    /\ prev' = [prev EXCEPT ![t] = Summary(t)]
    /\ key' = [key EXCEPT ![t] = k]
    /\ log' = [log EXCEPT ![t] = << >>]
    /\ mode' = [mode EXCEPT ![t] = m]
    /\ ret' = [ret EXCEPT ![t] = [kind |-> "return", val |-> CacheGet(k),
                                  failed |-> FALSE, hit |-> TRUE]]
    /\ returned' = returned \cup {<<k, CacheGet(k)>>}
    /\ UNCHANGED <<active, inputs, pc>>

\* ... with the key absent: the wrapper calls the body.
CallMiss(t, k) ==
    /\ t \in active /\ pc[t] = "idle" /\ budget > 0
    /\ k \in inputs /\ k \notin CacheKeys
    /\ budget' = budget - 1
    /\ prev' = [prev EXCEPT ![t] = Summary(t)]
    /\ key' = [key EXCEPT ![t] = k]
    /\ log' = [log EXCEPT ![t] = << >>]
    /\ mode' = [mode EXCEPT ![t] = "none"]
    /\ ret' = [ret EXCEPT ![t] = NoRet]
    /\ pc' = [pc EXCEPT ![t] = "sleep"]
    /\ UNCHANGED <<active, inputs, cache, tick, returned>>

\* Sleep left out: the body goes on to the dispatch without the delay.
SleepSkipped(t, d) ==
    /\ pc[t] = "sleep"
    /\ pc' = [pc EXCEPT ![t] = "dispatch"]
    /\ UNCHANGED <<active, inputs, budget, cache, tick, key, log, mode, ret, prev, returned>>

\* sleep(random.uniform(1, 3))
Sleep(t, d) ==
    /\ pc[t] = "sleep"
    /\ log' = [log EXCEPT ![t] = Append(@, [ev |-> "sleep", arg |-> "", n |-> d])]
    /\ pc' = [pc EXCEPT ![t] = "dispatch"]
    /\ UNCHANGED <<active, inputs, budget, cache, tick, key, mode, ret, prev, returned>>

\* the if/elif chain, the adapter it selects, and the except clause
Dispatch(t, m) ==
    /\ pc[t] = "dispatch"
    /\ LET b == Body(key[t][1], key[t][2], m)
       IN  ret' = [ret EXCEPT ![t] = [kind |-> b.kind, val |-> b.val,
                                      failed |-> b.failed, hit |-> FALSE]]
    /\ log' = [log EXCEPT ![t] = @ \o BodyEvents(key[t][1], key[t][2], m)]
    /\ mode' = [mode EXCEPT ![t] = m]
    /\ pc' = [pc EXCEPT ![t] = "store"]
    /\ UNCHANGED <<active, inputs, budget, cache, tick, key, prev, returned>>

\* the wrapper stores the body's result and returns it
Store(t) ==
    /\ pc[t] = "store"
    /\ IF ret[t].kind = "pending"
       THEN /\ tick' = tick + 1
            /\ cache' = Put(cache, key[t], ret[t].val, tick + 1)
            /\ ret' = [ret EXCEPT ![t].kind = "return"]
            /\ returned' = returned \cup {<<key[t], ret[t].val>>}
       ELSE \* the body raised: nothing is stored, the exception propagates
            /\ ret' = [ret EXCEPT ![t].kind = "raise"]
            /\ UNCHANGED <<tick, cache, returned>>
    /\ pc' = [pc EXCEPT ![t] = "idle"]
    /\ UNCHANGED <<active, inputs, budget, key, log, mode, prev>>

Step(t) == (\E d \in Delays : Sleep(t, d)) \/ (\E m \in RegistryModes : Dispatch(t, m)) \/ Store(t)

Next ==
    \/ \E t \in Threads, k \in AllKeys, m \in RegistryModes : CallHit(t, k, m)
    \/ \E t \in Threads, k \in AllKeys : CallMiss(t, k)
    \/ \E t \in Threads, d \in Delays : Sleep(t, d)
    \/ \E t \in Threads, m \in RegistryModes : Dispatch(t, m)
    \/ \E t \in Threads : Store(t)

Spec == Init /\ [][Next]_vars

CacheSpec == InitCache /\ [][Next]_vars

ConcSpec == InitConc /\ [][Next]_vars

\* A call that has started runs to its end: the interpreter keeps executing
\* the caller, and every request is answered or fails.
FairSpec == InitFair /\ [][Next]_vars /\ \A t \in Threads : WF_vars(Step(t))

---------------------------------------------------------------------------
(* Vocabulary of the properties *)

\* The caller of t has its answer.
Done(t) == pc[t] = "idle" /\ ret[t].kind \in {"return", "raise"}

\* The call of t ran the body (a cache miss) and the body has finished.
Looked(t) == pc[t] = "store" \/ (Done(t) /\ ~ret[t].hit)

Institution(t) == key[t][1]
Country(t) == key[t][2]

\* What the user is shown for the call of t.
Shown(t) == Status(ret[t].val)

\* The lookup of t's call failed: the registry could not be reached, or the
\* page it served lacks the markup the adapter needs (India's form tokens).
LookupFailed(t) ==
    /\ Looked(t)
    /\ Country(t) \in Supported
    /\ \/ mode[t] = "down"
       \/ mode[t] = "malformed" /\ Country(t) = "India"

\* What the registry says of an institution when it answers.
Listed(institution) == \E n \in Listing : Lower(n) = Lower(institution)

Events(t, e) == {i \in 1..Len(log[t]) : log[t][i].ev = e}

AllIdle == \A t \in Threads : pc[t] = "idle"

Verified == {p[1] : p \in returned}

\* The adapter the design assigns to each country.
AdapterOf(country) ==
    CASE country = "India" -> "check_ugc_india"
      [] country = "Pakistan" -> "check_hec_pakistan"
      [] country = "Saudi Arabia" -> "check_moe_saudi"
      [] country = "Germany" -> "check_anabin_germany"
      [] country = "Nigeria" -> "check_nuc_nigeria"
      [] country = "Bangladesh" -> "check_ugc_bangladesh"
      [] OTHER -> "none"

---------------------------------------------------------------------------
(* Properties *)

\* C1: when the lookup fails (registry unreachable, or the India form page
\* without its tokens), the verdict returned and shown is Unknown, not the
\* verdict shown for an institution the registry does not list.
C1_FailedLookupIsUnknown ==
    \A t \in Threads : (Done(t) /\ LookupFailed(t)) => Shown(t) = "Unknown"

\* C2: a call with the arguments of the call just before it, for a supported
\* country, never runs the body: it is a cache hit with the same verdict, no
\* adapter call and no request, so the adapter ran once over the two calls
\* (in the first, unless that was a hit itself).
C2_SecondCallIsHit ==
    \A t \in Threads :
        (prev[t].done /\ prev[t].key = key[t] /\ Country(t) \in Supported) =>
            /\ pc[t] = "idle"
            /\ ret[t].kind = "return" /\ ret[t].hit
            /\ ret[t].val = prev[t].val
            /\ log[t] = << >>
            /\ prev[t].adapters + Count(log[t], "adapter") = (IF prev[t].hit THEN 0 ELSE 1)

C2_Witness ==
    /\ prev[1].done /\ ~prev[1].hit /\ prev[1].key = key[1]
    /\ Country(1) \in Supported
    /\ Done(1) /\ ret[1].hit

\* C3: a call with a country outside the six is rejected with a
\* ConfigurationError before any lookup step: no sleep, no adapter, and the
\* caller gets an error, not a verdict.
C3_UnknownCountryRejected ==
    \A t \in Threads :
        (key[t] # NoKey /\ Country(t) \notin Supported) =>
            /\ log[t] = << >>
            /\ pc[t] \notin {"sleep", "dispatch"}
            /\ Done(t) => ret[t].kind = "raise"

C5_OneDelayBeforeRequest ==
    \A t \in Threads :
        /\ (Done(t) /\ ret[t].hit) => Events(t, "sleep") = {}
        /\ pc[t] = "sleep" => log[t] = << >>
        /\ (pc[t] = "dispatch" \/ Looked(t)) =>
              /\ Events(t, "sleep") = {1}
              /\ log[t][1].n >= 1 /\ log[t][1].n <= 3
              /\ \A i \in Events(t, "request") \cup Events(t, "adapter") : i > 1

C5_Witness ==
    /\ Done(1) /\ ~ret[1].hit /\ Events(1, "request") # {}
    /\ prev[1].done

\* C6: the cache never holds more than maxsize entries, and a step removes
\* an entry only when the cache is full, only one, and only the entry whose
\* last access (insert or hit) is the oldest.
Evicted == {i \in 1..Len(cache) : \A j \in 1..Len(cache') : cache'[j].key # cache[i].key}

EvictsOldest ==
    /\ Cardinality(Evicted) <= 1
    /\ \A i \in Evicted :
          /\ Len(cache) = maxsize
          /\ \A j \in 1..Len(cache) : cache[i].used <= cache[j].used

C6_BoundedLRU == [](Len(cache) <= maxsize) /\ [][EvictsOldest]_vars

\* A hit refreshed an entry, then a miss on a full cache evicted another.
C6_Witness ==
    /\ Done(1) /\ ~ret[1].hit /\ prev[1].hit
    /\ Len(cache) = maxsize
    /\ \E p \in returned : p[1] \notin CacheKeys
    /\ prev[1].key \in CacheKeys

\* C7: a call answered while the registry is reachable gives the registry's
\* actual answer: a failure of an earlier lookup is not served from the cache.
C7_FailureNotRetained ==
    \A t \in Threads :
        (Done(t) /\ Country(t) \in Supported /\ mode[t] = "up") =>
            ret[t].val = Listed(Institution(t))

\* C8 as stated: once all calls have completed, with fewer than maxsize
\* distinct keys, every verified key maps in the cache to the verdict returned
\* for it, for every call that returned one.
C8_CacheHoldsEveryVerdict ==
    (AllIdle /\ Cardinality(Verified) < maxsize) =>
        \A p \in returned : p[1] \in CacheKeys /\ CacheGet(p[1]) = p[2]

\* C8 amended: the cache holds each key at most once, never more than
\* maxsize entries, and once all calls have completed, with fewer than
\* maxsize distinct keys, every verified key is in the cache with a verdict
\* that a call for that key returned.
C8_CacheHoldsAReturnedVerdict ==
    /\ Len(cache) <= maxsize
    /\ \A i, j \in 1..Len(cache) : cache[i].key = cache[j].key => i = j
    /\ (AllIdle /\ Cardinality(Verified) < maxsize) =>
          \A k \in Verified : k \in CacheKeys /\ <<k, CacheGet(k)>> \in returned

\* Two callers missed on the same key at the same time and got different
\* verdicts.
C8_Witness ==
    /\ AllIdle /\ Cardinality(Verified) < maxsize
    /\ Done(1) /\ Done(2) /\ ~ret[1].hit /\ ~ret[2].hit
    /\ key[1] = key[2] /\ ret[1].val # ret[2].val

\* C9: a call that misses the cache, for one of the six countries, calls the
\* adapter of that country once and no other adapter.
C9_DispatchesToOwnAdapter ==
    \A t \in Threads :
        (Looked(t) /\ Country(t) \in Supported) =>
            /\ Cardinality(Events(t, "adapter")) = 1
            /\ \A i \in Events(t, "adapter") : log[t][i].arg = AdapterOf(Country(t))

C9_Witness ==
    /\ Done(1) /\ ~ret[1].hit /\ Country(1) = "Bangladesh"
    /\ prev[1].done /\ prev[1].key[2] = "Nigeria"

\* C10: a response with a non-2xx status is a failed lookup: it is signaled
\* as one and never yields Recognized.
C10_Non2xxIsFailure ==
    \A t \in Threads :
        (Looked(t) /\ Country(t) \in Supported /\ mode[t] = "http5xx") =>
            ret[t].failed /\ Shown(t) # "Recognized"

=============================================================================
